---------------------------- MODULE Spec2Model ----------------------------
(***************************************************************************)
(* The block/item reconciliation engine of the mainnet hook                *)
(* (src/src/useBlockchainData.js, lines 1-494): the Item store, the        *)
(* missing-parent ledger, the in-flight fetch set, retention, and the      *)
(* enable/disable and WebSocket lifecycle that feeds them.                 *)
(*                                                                         *)
(* JavaScript values are encoded as follows.                               *)
(*   - a hash is a pair <<first 8 characters, rest>>, so that slice(0, 8)  *)
(*     is a real projection; null/undefined hashes are NoHash.             *)
(*   - a hexadecimal string "0x.." is the sequence of its digit values;    *)
(*     a missing (undefined/null) field is Missing.                        *)
(*   - a decoded number is a natural number, NullNum (null) or NaN.        *)
(***************************************************************************)
EXTENDS Integers, Sequences, FiniteSets, TLC

(***************************************************************************)
(* Bounds of the model.                                                    *)
(***************************************************************************)
MaxTime == 2
MaxEvents == 3
MaxCap == 2
MaxSockets == 1
MaxPolls == 1
MaxTimers == 2
MaxLen == 3
MaxIngest == 3
MaxCloses == 2

(***************************************************************************)
(* Encodings of JavaScript null and NaN for decoded numbers.               *)
(***************************************************************************)
NullNum == -1
NaN == -2

NoHash == <<"null", "">>
ZeroHash == <<"00000000", "0">>
Missing == <<-1>>

h1 == <<"aaaaaaaa", "1">>
h2 == <<"aaaaaaaa", "2">>
h3 == <<"cccccccc", "3">>
h4 == <<"dddddddd", "4">>
h5 == <<"cccccccc", "5">>

Hashes == {h1, h2, h3, h4, h5}

\* every value fetchMissingParent can be called with
Fetchable == Hashes \cup {ZeroHash, NoHash}

(***************************************************************************)
(* The node's data: what a poll or a point lookup can answer.  A block     *)
(* record is the JSON-RPC result: hash, woHeader.parentHash,               *)
(* woHeader.number, order, header.parentHash, uncles, workshares.          *)
(***************************************************************************)
Share(h, p, n) == [hash |-> h, parentHash |-> p, number |-> n]

W1 == Share(h4, h1, <<1>>)

\* entries of a poll response that lack hash or parentHash
WBad == Share(NoHash, h1, <<1>>)
UBad == Share(h4, NoHash, <<1>>)

RawBlock(h, p, n, o, hp, us, ws) ==
    [hash |-> h, parentHash |-> p, number |-> n, order |-> o,
     headerParentHashes |-> hp, uncles |-> us, workshares |-> ws]

\* a prime block, a region block on it and two competing zone blocks; the
\* workshare W1, a sibling of B2, is reported by both B2 and B3; B3's lists
\* also carry an uncle without parentHash and, before W1, a workshare
\* without hash
B1 == RawBlock(h1, ZeroHash, <<0>>, <<0>>, <<ZeroHash, ZeroHash>>, <<>>, <<>>)
B2 == RawBlock(h2, h1, <<1>>, <<1>>, <<h1>>, <<>>, <<W1>>)
B3 == RawBlock(h3, h2, <<2>>, <<2>>, <<>>, <<UBad>>, <<WBad, W1>>)
B5 == RawBlock(h5, h2, <<2>>, <<2>>, <<>>, <<>>, <<>>)

Blocks == {B1, B2, B3, B5}
Pushes == {W1}

\* header.parentHash[i] (0-based in the source); undefined when absent
HeaderAt(hp, i) == IF i + 1 <= Len(hp) THEN hp[i + 1] ELSE NoHash

(***************************************************************************)
(* Pure helpers.                                                           *)
(***************************************************************************)
RECURSIVE HexValue(_)
HexValue(s) == IF s = <<>> THEN 0
               ELSE 16 * HexValue(SubSeq(s, 1, Len(s) - 1)) + s[Len(s)]

\* parseInt(x, 16): NaN for a missing (undefined/null) field
ParseInt16(s) == IF s = Missing \/ s = <<>> THEN NaN ELSE HexValue(s)

\* JavaScript truthiness of a string-or-missing field
Truthy(s) == s # Missing /\ s # <<>>

\* (x.number || 0): null, NaN and 0 all give 0
Num0(n) == IF n < 0 THEN 0 ELSE n

\* hash.slice(0, 8)
ShortHash(h) == h[1]


(***************************************************************************)
(* Items and the two orderings of the store.                               *)
(***************************************************************************)
Item(id, type, hash, parent, number, order, ts, inc) ==
    [id |-> id, type |-> type, fullHash |-> hash, fullParentHash |-> parent,
     number |-> number, order |-> order, timestamp |-> ts, includedIn |-> inc]

\* the display comparator (a.number || 0) - (b.number || 0) is positive
NumberAfter(a, b) == Num0(a.number) > Num0(b.number)

\* an eviction comparator that ranks by number before timestamp
RelevanceAfter_numberFirst(a, b) ==
    \/ Num0(a.number) < Num0(b.number)
    \/ Num0(a.number) = Num0(b.number) /\ a.timestamp < b.timestamp

\* the eviction comparator: newer timestamp first, then higher number first
RelevanceAfter(a, b) ==
    \/ a.timestamp < b.timestamp
    \/ a.timestamp = b.timestamp /\ Num0(a.number) < Num0(b.number)

\* Array.prototype.sort is stable: x goes after every element it does not precede
InsertByNumber(x, s) ==
    LET later == {i \in 1..Len(s) : NumberAfter(s[i], x)}
        k == IF later = {} THEN Len(s) + 1
             ELSE CHOOSE i \in later : \A j \in later : i <= j
    IN  SubSeq(s, 1, k - 1) \o <<x>> \o SubSeq(s, k, Len(s))

RECURSIVE SortByNumber(_)
SortByNumber(s) ==
    IF s = <<>> THEN <<>>
    ELSE InsertByNumber(s[Len(s)], SortByNumber(SubSeq(s, 1, Len(s) - 1)))

InsertByRelevance(x, s) ==
    LET later == {i \in 1..Len(s) : RelevanceAfter(s[i], x)}
        k == IF later = {} THEN Len(s) + 1
             ELSE CHOOSE i \in later : \A j \in later : i <= j
    IN  SubSeq(s, 1, k - 1) \o <<x>> \o SubSeq(s, k, Len(s))

RECURSIVE SortByRelevance(_)
SortByRelevance(s) ==
    IF s = <<>> THEN <<>>
    ELSE InsertByRelevance(s[Len(s)], SortByRelevance(SubSeq(s, 1, Len(s) - 1)))

\* an eviction that keeps one Item more than the cap
cleanupOldItems_keepsOneMore(itemsList, currentMaxItems) ==
    IF Len(itemsList) <= currentMaxItems THEN itemsList
    ELSE SubSeq(SortByRelevance(itemsList), 1, currentMaxItems + 1)

cleanupOldItems(itemsList, currentMaxItems) ==
    IF Len(itemsList) <= currentMaxItems THEN itemsList
    ELSE SubSeq(SortByRelevance(itemsList), 1, currentMaxItems)

(***************************************************************************)
(* addItem, as the function the state updater computes from the previous   *)
(* collection and the refs.  The result carries the new collection, the    *)
(* refs as the updater leaves them, and the hashes for which               *)
(* fetchMissingParent issued a network call.                               *)
(***************************************************************************)
\* an existence test that only looks at the most recently placed Item
Exists_lastOnly(list, hash, type) ==
    /\ list # <<>>
    /\ list[Len(list)].fullHash = hash /\ list[Len(list)].type = type

\* prevItems.findIndex(...) !== -1, prevItems.find(...), updatedItems.some(...)
Exists(list, hash, type) ==
    \E i \in 1..Len(list) : list[i].fullHash = hash /\ list[i].type = type

FindIndex(list, hash, type) ==
    CHOOSE i \in 1..Len(list) :
        /\ list[i].fullHash = hash /\ list[i].type = type
        /\ \A j \in 1..(i - 1) : ~(list[j].fullHash = hash /\ list[j].type = type)

\* the synchronous part of fetchMissingParent: guard, mark in flight, send;
\* each call sent is recorded with whether its hash was in the ledger then
StartFetch(acc, h) ==
    IF h \in acc.fetching THEN acc
    ELSE [acc EXCEPT !.fetching = @ \cup {h},
                     !.fetched = Append(@, <<h, h \in acc.missing>>)]

\* a missing-parent check that does not consult the ledger
CheckParent_noLedger(newItem, updatedItems, acc) ==
    IF /\ newItem.fullParentHash # NoHash
       /\ newItem.fullParentHash # ZeroHash
       /\ newItem.fullParentHash \notin acc.fetching
       /\ ~Exists(updatedItems, newItem.fullParentHash, newItem.type)
    THEN StartFetch([acc EXCEPT !.missing = @ \cup {newItem.fullParentHash}],
                    newItem.fullParentHash)
    ELSE acc

\* a missing-parent check that sends the call and never marks the ledger
CheckParent_neverLedgers(newItem, updatedItems, acc) ==
    IF /\ newItem.fullParentHash # NoHash
       /\ newItem.fullParentHash # ZeroHash
       /\ newItem.fullParentHash \notin acc.missing
       /\ newItem.fullParentHash \notin acc.fetching
       /\ ~Exists(updatedItems, newItem.fullParentHash, newItem.type)
    THEN StartFetch(acc, newItem.fullParentHash)
    ELSE acc

\* a missing-parent check that does not skip the all-zero sentinel
CheckParent_noSentinel(newItem, updatedItems, acc) ==
    IF /\ newItem.fullParentHash # NoHash
       /\ newItem.fullParentHash \notin acc.missing
       /\ newItem.fullParentHash \notin acc.fetching
       /\ ~Exists(updatedItems, newItem.fullParentHash, newItem.type)
    THEN StartFetch([acc EXCEPT !.missing = @ \cup {newItem.fullParentHash}],
                    newItem.fullParentHash)
    ELSE acc

\* a missing-parent check that sends the call before it marks the ledger
CheckParent_fetchFirst(newItem, updatedItems, acc) ==
    IF /\ newItem.fullParentHash # NoHash
       /\ newItem.fullParentHash # ZeroHash
       /\ newItem.fullParentHash \notin acc.missing
       /\ newItem.fullParentHash \notin acc.fetching
       /\ ~Exists(updatedItems, newItem.fullParentHash, newItem.type)
    THEN LET sent == StartFetch(acc, newItem.fullParentHash)
         IN  [sent EXCEPT !.missing = @ \cup {newItem.fullParentHash}]
    ELSE acc

\* the missing-parent check made for one newly created Item
CheckParent(newItem, updatedItems, acc) ==
    IF /\ newItem.fullParentHash # NoHash
       /\ newItem.fullParentHash # ZeroHash
       /\ newItem.fullParentHash \notin acc.missing
       /\ newItem.fullParentHash \notin acc.fetching
       /\ ~Exists(updatedItems, newItem.fullParentHash, newItem.type)
    THEN StartFetch([acc EXCEPT !.missing = @ \cup {newItem.fullParentHash}],
                    newItem.fullParentHash)
    ELSE acc

RECURSIVE CheckParents(_, _, _)
CheckParents(newItems, updatedItems, acc) ==
    IF newItems = <<>> THEN acc
    ELSE CheckParents(Tail(newItems), updatedItems,
                      CheckParent(Head(newItems), updatedItems, acc))

\* an expansion that treats a region block (order 1) as a zone block
Representations_regionAsZone(orderNum, parentHash, hp) ==
    IF orderNum = 0
    THEN << <<"primeBlock", HeaderAt(hp, 0)>>,
            <<"regionBlock", HeaderAt(hp, 1)>>,
            <<"block", parentHash>> >>
    ELSE << <<"block", parentHash>> >>

\* an expansion that gives every representation the zone parent
Representations_zoneParent(orderNum, parentHash, hp) ==
    IF orderNum = 0
    THEN << <<"primeBlock", parentHash>>, <<"regionBlock", parentHash>>,
            <<"block", parentHash>> >>
    ELSE IF orderNum = 1
    THEN << <<"regionBlock", parentHash>>, <<"block", parentHash>> >>
    ELSE << <<"block", parentHash>> >>

\* the representations a block of the given decoded order expands into
Representations(orderNum, parentHash, hp) ==
    IF orderNum = 0
    THEN << <<"primeBlock", HeaderAt(hp, 0)>>,
            <<"regionBlock", HeaderAt(hp, 1)>>,
            <<"block", parentHash>> >>
    ELSE IF orderNum = 1
    THEN << <<"regionBlock", IF HeaderAt(hp, 1) # NoHash THEN HeaderAt(hp, 1)
                                                         ELSE HeaderAt(hp, 0)>>,
            <<"block", parentHash>> >>
    ELSE << <<"block", parentHash>> >>

\* addRepresentation over the list: skips existing ones, numbers the new ones
RECURSIVE AddRepresentations(_, _, _, _, _)
AddRepresentations(reps, prevItems, call, ts, newItems) ==
    IF reps = <<>> THEN newItems
    ELSE LET blockType == Head(reps)[1]
             parent == Head(reps)[2]
             item == Item(<<blockType, ShortHash(call.hash), ts, Len(newItems)>>,
                          blockType, call.hash, parent,
                          ParseInt16(call.number), call.order, ts, NoHash)
         IN  AddRepresentations(Tail(reps), prevItems, call, ts,
                 IF Exists(prevItems, call.hash, blockType) THEN newItems
                 ELSE Append(newItems, item))

Result(items, acc, maxH, outcome, emitted) ==
    [items |-> items, missing |-> acc.missing, fetching |-> acc.fetching,
     fetched |-> acc.fetched, maxHeight |-> maxH, outcome |-> outcome,
     emitted |-> emitted]

\* an insertion of uncles and workshares whose update in place also
\* refreshes the timestamp of the matched Item
AddOther_updateTouches(call, prevItems, acc, maxH, cap, ts) ==
    LET decimalNumber == IF Truthy(call.number) THEN ParseInt16(call.number)
                         ELSE NullNum
    IN  IF Exists(prevItems, call.hash, call.type)
        THEN IF call.includingHash # NoHash
             THEN LET i == FindIndex(prevItems, call.hash, call.type)
                  IN  Result([prevItems EXCEPT ![i].includedIn = call.includingHash,
                                               ![i].timestamp = ts],
                             acc, maxH, "update", <<>>)
             ELSE Result(prevItems, acc, maxH, "dup", <<>>)
        ELSE LET newItem == Item(<<call.type, ShortHash(call.hash), ts>>,
                                 call.type, call.hash, call.parentHash,
                                 decimalNumber, call.order, ts, call.includingHash)
                 newMax == IF decimalNumber # NullNum /\ decimalNumber > maxH
                           THEN decimalNumber ELSE maxH
                 updatedItems == SortByNumber(Append(prevItems, newItem))
                 acc2 == CheckParent(newItem, updatedItems, acc)
             IN  Result(cleanupOldItems(updatedItems, cap), acc2, newMax,
                        "append", <<newItem>>)

\* an insertion of uncles and workshares whose duplicate no-op fetches the
\* parent again when it is neither in the store nor in flight
AddOther_dupRetries(call, prevItems, acc, maxH, cap, ts) ==
    LET decimalNumber == IF Truthy(call.number) THEN ParseInt16(call.number)
                         ELSE NullNum
    IN  IF Exists(prevItems, call.hash, call.type)
        THEN IF call.includingHash # NoHash
             THEN LET i == FindIndex(prevItems, call.hash, call.type)
                  IN  Result([prevItems EXCEPT ![i].includedIn = call.includingHash],
                             acc, maxH, "update", <<>>)
             ELSE Result(prevItems,
                         IF Exists(prevItems, call.parentHash, call.type)
                         THEN acc ELSE StartFetch(acc, call.parentHash),
                         maxH, "dup", <<>>)
        ELSE LET newItem == Item(<<call.type, ShortHash(call.hash), ts>>,
                                 call.type, call.hash, call.parentHash,
                                 decimalNumber, call.order, ts, call.includingHash)
                 newMax == IF decimalNumber # NullNum /\ decimalNumber > maxH
                           THEN decimalNumber ELSE maxH
                 updatedItems == SortByNumber(Append(prevItems, newItem))
                 acc2 == CheckParent(newItem, updatedItems, acc)
             IN  Result(cleanupOldItems(updatedItems, cap), acc2, newMax,
                        "append", <<newItem>>)

AddOther(call, prevItems, acc, maxH, cap, ts) ==
    LET decimalNumber == IF Truthy(call.number) THEN ParseInt16(call.number)
                         ELSE NullNum
    IN  IF Exists(prevItems, call.hash, call.type)
        THEN IF call.includingHash # NoHash
             THEN LET i == FindIndex(prevItems, call.hash, call.type)
                  IN  Result([prevItems EXCEPT ![i].includedIn = call.includingHash],
                             acc, maxH, "update", <<>>)
             ELSE Result(prevItems, acc, maxH, "dup", <<>>)
        ELSE LET newItem == Item(<<call.type, ShortHash(call.hash), ts>>,
                                 call.type, call.hash, call.parentHash,
                                 decimalNumber, call.order, ts, call.includingHash)
                 newMax == IF decimalNumber # NullNum /\ decimalNumber > maxH
                           THEN decimalNumber ELSE maxH
                 updatedItems == SortByNumber(Append(prevItems, newItem))
                 acc2 == CheckParent(newItem, updatedItems, acc)
             IN  Result(cleanupOldItems(updatedItems, cap), acc2, newMax,
                        "append", <<newItem>>)

\* a block insertion that sets the counter to the inserted block's height
AddBlock_lastHeight(call, prevItems, acc, maxH, cap, ts) ==
    LET decimalNumber == ParseInt16(call.number)
        orderNum == ParseInt16(call.order)
        newItems == AddRepresentations(
                        Representations(orderNum, call.parentHash,
                                        call.headerParentHashes),
                        prevItems, call, ts, <<>>)
    IN  IF newItems = <<>> THEN Result(prevItems, acc, maxH, "dup", <<>>)
        ELSE LET newMax == Num0(decimalNumber)
                 updatedItems == SortByNumber(prevItems \o newItems)
                 acc2 == CheckParents(newItems, updatedItems, acc)
             IN  Result(cleanupOldItems(updatedItems, cap), acc2, newMax,
                        "append", newItems)

AddBlock(call, prevItems, acc, maxH, cap, ts) ==
    LET decimalNumber == ParseInt16(call.number)
        orderNum == ParseInt16(call.order)
        newItems == AddRepresentations(
                        Representations(orderNum, call.parentHash,
                                        call.headerParentHashes),
                        prevItems, call, ts, <<>>)
    IN  IF newItems = <<>> THEN Result(prevItems, acc, maxH, "dup", <<>>)
        ELSE LET newMax == IF decimalNumber > maxH THEN decimalNumber ELSE maxH
                 updatedItems == SortByNumber(prevItems \o newItems)
                 acc2 == CheckParents(newItems, updatedItems, acc)
             IN  Result(cleanupOldItems(updatedItems, cap), acc2, newMax,
                        "append", newItems)

addItem(call, prevItems, acc, maxH, cap, ts) ==
    IF call.type # "block" THEN AddOther(call, prevItems, acc, maxH, cap, ts)
    ELSE AddBlock(call, prevItems, acc, maxH, cap, ts)

\* the arguments of one addItem call, with the source that made it
Call(src, en, type, hash, parentHash, number, order, hp, includingHash) ==
    [src |-> src, en |-> en, type |-> type, hash |-> hash,
     parentHash |-> parentHash, number |-> number, order |-> order,
     headerParentHashes |-> hp, includingHash |-> includingHash]

BlockCall(src, en, b) ==
    Call(src, en, "block", b.hash, b.parentHash, b.number, b.order,
         b.headerParentHashes, NoHash)



(***************************************************************************)
(* State.                                                                  *)
(*   items, tipBlockHeight, isConnected, connectionStatus, wsConnection:   *)
(*     the hook's React state;                                             *)
(*   maxHeight, fetchingParents, missingParents, isEnabled,                *)
(*     maxItemsToKeep: the refs;                                           *)
(*   capturedWs: the wsConnection value closed over by the cleanup of the  *)
(*     WebSocket effect (0 = null or no cleanup);                          *)
(*   socks, timers: the sockets created by connectWebSocket and the        *)
(*     pending reconnect timeouts;                                         *)
(*   polls: poll requests awaiting their response;                         *)
(*   out: backfill network calls awaiting their response, per hash and     *)
(*     per value of isEnabled when the call was sent;                      *)
(*   queue: addItem calls whose state updater has not run yet;             *)
(*   now: Date.now();                                                      *)
(*   calls, lastOp: history (network calls per hash since the last reset,  *)
(*     the outcome of the last store operation);                           *)
(*   nEvents: notifications, disables and cap changes still to come;       *)
(*   staleTimers: history, how many of the pending reconnect timeouts      *)
(*     (the oldest ones) were pending when the source was disabled.        *)
(*   pc, pIn, pCap, pOut: cleanupOldItems exercised on its own (pc is      *)
(*     "hook" while the hook runs, "call" before and "done" after the      *)
(*     call), its argument, the cap and its result.                        *)
(*   hook2x2: the state of the 2x2 hook (useBlockchainData2x2), a record   *)
(*     whose fields carry the names of its state, refs and effect locals.  *)
(***************************************************************************)
VARIABLES items, tipBlockHeight, isConnected, connectionStatus, wsConnection,
          maxHeight, fetchingParents, missingParents, isEnabled,
          maxItemsToKeep, capturedWs, socks, timers, polls, out, queue, now,
          calls, lastOp, nEvents, staleTimers, pc, pIn, pCap, pOut, hook2x2

hookVars == <<items, tipBlockHeight, isConnected, connectionStatus,
              wsConnection, maxHeight, fetchingParents, missingParents,
              isEnabled, maxItemsToKeep, capturedWs, socks, timers, polls,
              out, queue, now, calls, lastOp, nEvents, staleTimers>>
pureVars == <<pc, pIn, pCap, pOut, hook2x2>>
vars == <<items, tipBlockHeight, isConnected, connectionStatus, wsConnection,
          maxHeight, fetchingParents, missingParents, isEnabled,
          maxItemsToKeep, capturedWs, socks, timers, polls, out, queue, now,
          calls, lastOp, nEvents, staleTimers, pc, pIn, pCap, pOut, hook2x2>>

\* the seven chains of networkConfig: prime, two regions, four zones
Chains == {"Prime", "Region-0", "Region-1",
           "Zone-0-0", "Zone-0-1", "Zone-1-0", "Zone-1-1"}

\* the 2x2 hook after construction
Init2x2 ==
    [items |-> <<>>, maxHeight |-> 0, missingParents |-> {},
     fetchingParents |-> {}, now |-> 1, nIngest |-> 0,
     lastCall |-> [chainName |-> "", hash |-> NoHash],
     isEnabled |-> FALSE, sockets |-> [c \in Chains |-> "none"],
     timers |-> [c \in Chains |-> 0], connectedCount |-> 0,
     isConnected |-> FALSE, connectionStatus |-> "Disconnected",
     nCloses |-> 0]

SockIds == 1..MaxSockets
OutKeys == Fetchable \X BOOLEAN

Op(outcome, emitted) == [outcome |-> outcome, emitted |-> emitted]

InitHook ==
    /\ items = <<>>
    /\ tipBlockHeight = 0
    /\ isConnected = FALSE
    /\ connectionStatus = "Disconnected"
    /\ wsConnection = 0
    /\ maxHeight = 0
    /\ fetchingParents = {}
    /\ missingParents = {}
    /\ isEnabled = FALSE
    /\ maxItemsToKeep = MaxCap
    /\ capturedWs = 0
    /\ socks = [s \in SockIds |-> "free"]
    /\ timers = 0
    /\ polls = 0
    /\ out = [k \in OutKeys |-> 0]
    /\ queue = <<>>
    /\ now = 1
    /\ calls = [h \in Fetchable |-> 0]
    /\ lastOp = Op("none", <<>>)
    /\ nEvents = MaxEvents
    /\ staleTimers = 0

Init ==
    /\ InitHook
    /\ pc = "hook" /\ pIn = <<>> /\ pCap = 0 /\ pOut = <<>>
    /\ hook2x2 = Init2x2

(***************************************************************************)
(* Sockets.                                                                *)
(***************************************************************************)
Live(s) == s \in SockIds /\ socks[s] \in {"connecting", "open"}

\* ws.close() of the captured socket, as the effect cleanup does
CloseCaptured(sk) ==
    IF Live(capturedWs) THEN [sk EXCEPT ![capturedWs] = "closing"] ELSE sk

\* connectWebSocket(): new WebSocket(...)
connectWebSocket(sk) ==
    LET s == CHOOSE x \in SockIds : sk[x] = "free" /\ \A r \in SockIds : sk[r] = "free" => x <= r
    IN  [sk EXCEPT ![s] = "connecting"]

CanConnect(sk) == \E s \in SockIds : sk[s] = "free"


(***************************************************************************)
(* Actions.                                                                *)
(***************************************************************************)
\* isEnabled becomes true: the WebSocket effect runs connectWebSocket; ok
\* tells whether new WebSocket(...) returned or threw (the catch branch sets
\* the status to 'Error' and arms the 5000 ms retry)
Enable(ok) ==
    /\ ~isEnabled /\ queue = <<>>
    /\ CanConnect(socks)
    /\ ~ok => timers < MaxTimers
    /\ isEnabled' = TRUE
    /\ socks' = IF ok THEN connectWebSocket(socks) ELSE socks
    /\ connectionStatus' = IF ok THEN connectionStatus ELSE "Error"
    /\ timers' = IF ok THEN timers ELSE timers + 1
    /\ capturedWs' = wsConnection
    /\ UNCHANGED <<items, tipBlockHeight, isConnected,
                   wsConnection, maxHeight, fetchingParents, missingParents,
                   maxItemsToKeep, polls, out, queue, now, calls,
                   lastOp, nEvents, staleTimers,
                   pureVars>>

\* a reset that forgets to empty the in-flight set
ClearData_keepsInFlight ==
    /\ items' = <<>>
    /\ tipBlockHeight' = 0
    /\ maxHeight' = 0
    /\ fetchingParents' = fetchingParents
    /\ missingParents' = {}
    /\ isConnected' = FALSE
    /\ connectionStatus' = "Disconnected"
    /\ wsConnection' = 0

\* a reset that zeroes the counters and keeps the Items
ClearData_keepsItems ==
    /\ items' = items
    /\ tipBlockHeight' = 0
    /\ maxHeight' = 0
    /\ fetchingParents' = {}
    /\ missingParents' = {}
    /\ isConnected' = FALSE
    /\ connectionStatus' = "Disconnected"
    /\ wsConnection' = 0

\* the reset made when isEnabled goes from true to false
ClearData ==
    /\ items' = <<>>
    /\ tipBlockHeight' = 0
    /\ maxHeight' = 0
    /\ fetchingParents' = {}
    /\ missingParents' = {}
    /\ isConnected' = FALSE
    /\ connectionStatus' = "Disconnected"
    /\ wsConnection' = 0

\* isEnabled becomes false: effect cleanup, then the reset
Disable ==
    /\ isEnabled /\ queue = <<>>
    /\ nEvents > 0
    /\ nEvents' = nEvents - 1
    /\ isEnabled' = FALSE
    /\ socks' = CloseCaptured(socks)
    /\ capturedWs' = 0
    /\ ClearData
    /\ calls' = [h \in Fetchable |-> 0]
    /\ lastOp' = Op("none", <<>>)
    /\ staleTimers' = timers
    /\ UNCHANGED <<maxItemsToKeep, timers, polls, out, queue, now, pureVars>>

\* the maxItemsToKeep prop changes: the ref follows, addItem is recreated and
\* the WebSocket effect, which depends on addItem, is cleaned up and rerun
SetMaxItems(c, ok) ==
    /\ c # maxItemsToKeep /\ queue = <<>>
    /\ nEvents > 0
    /\ nEvents' = nEvents - 1
    /\ isEnabled => CanConnect(CloseCaptured(socks))
    /\ ~ok => (isEnabled /\ timers < MaxTimers)
    /\ maxItemsToKeep' = c
    /\ socks' = IF isEnabled /\ ok THEN connectWebSocket(CloseCaptured(socks))
                ELSE CloseCaptured(socks)
    /\ connectionStatus' = IF ok THEN connectionStatus ELSE "Error"
    /\ timers' = IF ok THEN timers ELSE timers + 1
    /\ capturedWs' = IF isEnabled THEN wsConnection ELSE 0
    /\ lastOp' = Op("none", <<>>)
    /\ UNCHANGED <<items, tipBlockHeight, isConnected,
                   wsConnection, maxHeight, fetchingParents, missingParents,
                   isEnabled, polls, out, queue, now, calls,
                   staleTimers, pureVars>>

\* ws.onopen
WsOpen(s) ==
    /\ socks[s] = "connecting" /\ queue = <<>>
    /\ socks' = [socks EXCEPT ![s] = "open"]
    /\ isConnected' = TRUE
    /\ connectionStatus' = "Connected"
    /\ wsConnection' = s
    /\ UNCHANGED <<items, tipBlockHeight, maxHeight, fetchingParents,
                   missingParents, isEnabled, maxItemsToKeep, capturedWs,
                   timers, polls, out, queue, now, calls, lastOp, nEvents,
                   staleTimers, pureVars>>

\* ws.onerror
WsError(s) ==
    /\ socks[s] \in {"connecting", "open"} /\ queue = <<>>
    /\ connectionStatus # "Error"
    /\ connectionStatus' = "Error"
    /\ UNCHANGED <<items, tipBlockHeight, isConnected, wsConnection, maxHeight,
                   fetchingParents, missingParents, isEnabled, maxItemsToKeep,
                   capturedWs, socks, timers, polls, out, queue, now, calls,
                   lastOp, nEvents, staleTimers,
                   pureVars>>

\* ws.onclose
WsClose(s) ==
    /\ socks[s] \in {"connecting", "open", "closing"} /\ queue = <<>>
    /\ isEnabled => timers < MaxTimers
    /\ socks' = [socks EXCEPT ![s] = "free"]
    /\ isConnected' = FALSE
    /\ connectionStatus' = "Disconnected"
    /\ wsConnection' = 0
    /\ capturedWs' = IF capturedWs = s THEN 0 ELSE capturedWs
    /\ timers' = IF isEnabled THEN timers + 1 ELSE timers
    /\ UNCHANGED <<items, tipBlockHeight, maxHeight, fetchingParents,
                   missingParents, isEnabled, maxItemsToKeep, polls, out,
                   queue, now, calls, lastOp, nEvents, staleTimers,
                   pureVars>>

\* a timeout that fires without calling connectWebSocket
TimerFire_noReconnect(ok) ==
    /\ timers > 0 /\ queue = <<>>
    /\ ok
    /\ timers' = timers - 1
    /\ staleTimers' = IF staleTimers > 0 THEN staleTimers - 1 ELSE 0
    /\ UNCHANGED <<items, tipBlockHeight, isConnected, connectionStatus,
                   wsConnection, maxHeight, fetchingParents, missingParents,
                   isEnabled, maxItemsToKeep, capturedWs, socks, polls, out,
                   queue, now, calls, lastOp, nEvents, pureVars>>

\* the 5000 ms reconnect timeout fires; when new WebSocket(...) throws the
\* catch branch sets the status to 'Error' and arms the timeout again
TimerFire(ok) ==
    /\ timers > 0 /\ queue = <<>>
    /\ isEnabled => CanConnect(socks)
    /\ ~ok => isEnabled
    /\ timers' = IF ok THEN timers - 1 ELSE timers
    /\ staleTimers' = IF staleTimers > 0 THEN staleTimers - 1 ELSE 0
    /\ socks' = IF isEnabled /\ ok THEN connectWebSocket(socks) ELSE socks
    /\ connectionStatus' = IF ok THEN connectionStatus ELSE "Error"
    /\ UNCHANGED <<items, tipBlockHeight, isConnected,
                   wsConnection, maxHeight, fetchingParents, missingParents,
                   isEnabled, maxItemsToKeep, capturedWs, polls, out, queue,
                   now, calls, lastOp, nEvents, pureVars>>

\* pollLatestBlock sends its request
PollStart ==
    /\ isConnected /\ queue = <<>>
    /\ polls < MaxPolls
    /\ polls' = polls + 1
    /\ UNCHANGED <<items, tipBlockHeight, isConnected, connectionStatus,
                   wsConnection, maxHeight, fetchingParents, missingParents,
                   isEnabled, maxItemsToKeep, capturedWs, socks, timers, out,
                   queue, now, calls, lastOp, nEvents, staleTimers,
                   pureVars>>

\* a pass over the entries that stops at the first one failing the check
RECURSIVE ShareCalls_stopAtMalformed(_, _, _)
ShareCalls_stopAtMalformed(list, type, includingHash) ==
    IF list = <<>> THEN <<>>
    ELSE LET e == Head(list)
         IN  IF e.hash # NoHash /\ e.parentHash # NoHash
             THEN <<Call("poll", isEnabled, type, e.hash, e.parentHash, e.number,
                         Missing, <<>>, includingHash)>>
                      \o ShareCalls_stopAtMalformed(Tail(list), type, includingHash)
             ELSE <<>>

\* a pass over the entries that does not hand on the including block's hash
RECURSIVE ShareCalls_noLink(_, _, _)
ShareCalls_noLink(list, type, includingHash) ==
    IF list = <<>> THEN <<>>
    ELSE LET e == Head(list)
             rest == ShareCalls_noLink(Tail(list), type, includingHash)
         IN  IF e.hash # NoHash /\ e.parentHash # NoHash
             THEN <<Call("poll", isEnabled, type, e.hash, e.parentHash, e.number,
                         Missing, <<>>, NoHash)>> \o rest
             ELSE rest

\* the uncle/workshare entries of a poll response that pass the field check
RECURSIVE ShareCalls(_, _, _)
ShareCalls(list, type, includingHash) ==
    IF list = <<>> THEN <<>>
    ELSE LET e == Head(list)
             rest == ShareCalls(Tail(list), type, includingHash)
         IN  IF e.hash # NoHash /\ e.parentHash # NoHash
             THEN <<Call("poll", isEnabled, type, e.hash, e.parentHash, e.number,
                         Missing, <<>>, includingHash)>> \o rest
             ELSE rest

\* a well-formed poll response arrives
PollResponse(b) ==
    /\ polls > 0 /\ queue = <<>>
    /\ nEvents > 0
    /\ polls' = polls - 1
    /\ nEvents' = nEvents - 1
    /\ tipBlockHeight' = ParseInt16(b.number)
    /\ queue' = <<BlockCall("poll", isEnabled, b)>>
                    \o ShareCalls(b.uncles, "uncle", b.hash)
                    \o ShareCalls(b.workshares, "workshare", b.hash)
    /\ UNCHANGED <<items, isConnected, connectionStatus, wsConnection,
                   maxHeight, fetchingParents, missingParents, isEnabled,
                   maxItemsToKeep, capturedWs, socks, timers, out, now, calls,
                   lastOp, staleTimers, pureVars>>

\* a failed poll that also forgets the tip height
PollFail_resetsTip ==
    /\ polls > 0 /\ queue = <<>>
    /\ polls' = polls - 1
    /\ tipBlockHeight' = 0
    /\ lastOp' = Op("pollFail", <<>>)
    /\ UNCHANGED <<items, isConnected, connectionStatus,
                   wsConnection, maxHeight, fetchingParents, missingParents,
                   isEnabled, maxItemsToKeep, capturedWs, socks, timers, out,
                   queue, now, calls, nEvents, staleTimers,
                   pureVars>>

\* the poll request fails, or its response lacks result, hash or woHeader
PollFail ==
    /\ polls > 0 /\ queue = <<>>
    /\ polls' = polls - 1
    /\ lastOp' = Op("pollFail", <<>>)
    /\ UNCHANGED <<items, tipBlockHeight, isConnected, connectionStatus,
                   wsConnection, maxHeight, fetchingParents, missingParents,
                   isEnabled, maxItemsToKeep, capturedWs, socks, timers, out,
                   queue, now, calls, nEvents, staleTimers,
                   pureVars>>

\* ws.onmessage with a quai_subscription workshare
Push(s, w) ==
    /\ socks[s] = "open" /\ queue = <<>>
    /\ nEvents > 0
    /\ w.hash # NoHash /\ w.parentHash # NoHash /\ Truthy(w.number)
    /\ nEvents' = nEvents - 1
    /\ queue' = <<Call("push", isEnabled, "workshare", w.hash, w.parentHash,
                       w.number, Missing, <<>>, NoHash)>>
    /\ UNCHANGED <<items, tipBlockHeight, isConnected, connectionStatus,
                   wsConnection, maxHeight, fetchingParents, missingParents,
                   isEnabled, maxItemsToKeep, capturedWs, socks, timers, polls,
                   out, now, calls, lastOp, staleTimers, pureVars>>

\* one addItem state updater runs
ApplyAddItem ==
    /\ queue # <<>>
    /\ now' \in now..MaxTime
    /\ \E r \in {addItem(Head(queue), items,
                        [missing |-> missingParents, fetching |-> fetchingParents,
                         fetched |-> <<>>],
                        maxHeight, maxItemsToKeep, now')} :
         \E sent \in {{r.fetched[i][1] : i \in 1..Len(r.fetched)}} :
           /\ items' = r.items
           /\ missingParents' = r.missing
           /\ fetchingParents' = r.fetching
           /\ maxHeight' = r.maxHeight
           /\ out' = [k \in OutKeys |->
                        IF k[1] \in sent /\ k[2] = isEnabled THEN out[k] + 1
                        ELSE out[k]]
           /\ calls' = [h \in Fetchable |->
                          IF h \in sent THEN calls[h] + 1 ELSE calls[h]]
           /\ lastOp' = Op(r.outcome, r.emitted)
    /\ queue' = Tail(queue)
    /\ UNCHANGED <<tipBlockHeight, isConnected, connectionStatus, wsConnection,
                   isEnabled, maxItemsToKeep, capturedWs, socks, timers, polls,
                   nEvents, staleTimers,
                   pureVars>>

\* what quai_getBlockByHash answers for a hash
Known(h) == \E b \in Blocks : b.hash = h
BlockByHash(h) == CHOOSE b \in Blocks : b.hash = h

\* a backfill that marks none of the fetched block's parents
AncestorMarks_none(b) == {}

\* the hashes fetchMissingParent marks before inserting the fetched block
AncestorMarks(b) ==
    {x \in {b.parentHash, HeaderAt(b.headerParentHashes, 0),
            HeaderAt(b.headerParentHashes, 1)} : x # NoHash /\ x # ZeroHash}

\* the backfill call for h returns a block with woHeader
FetchResponse(h, en) ==
    /\ out[<<h, en>>] > 0 /\ queue = <<>>
    /\ Known(h)
    /\ out' = [out EXCEPT ![<<h, en>>] = @ - 1]
    /\ missingParents' = missingParents \cup AncestorMarks(BlockByHash(h))
    /\ queue' = <<BlockCall("backfill", en, BlockByHash(h))>>
    /\ fetchingParents' = fetchingParents \ {h}
    /\ UNCHANGED <<items, tipBlockHeight, isConnected, connectionStatus,
                   wsConnection, maxHeight, isEnabled, maxItemsToKeep,
                   capturedWs, socks, timers, polls, now, calls, lastOp,
                   nEvents, staleTimers,
                   pureVars>>

\* a failure path that takes the hash out of the ledger again
FetchFail_forgets(h, en) ==
    /\ out[<<h, en>>] > 0 /\ queue = <<>>
    /\ out' = [out EXCEPT ![<<h, en>>] = @ - 1]
    /\ fetchingParents' = fetchingParents \ {h}
    /\ missingParents' = missingParents \ {h}
    /\ UNCHANGED <<items, tipBlockHeight, isConnected, connectionStatus,
                   wsConnection, maxHeight, isEnabled, maxItemsToKeep,
                   capturedWs, socks, timers, polls, queue, now, calls,
                   lastOp, nEvents, staleTimers, pureVars>>

\* a failure path without the finally block
FetchFail_noCleanup(h, en) ==
    /\ out[<<h, en>>] > 0 /\ queue = <<>>
    /\ out' = [out EXCEPT ![<<h, en>>] = @ - 1]
    /\ UNCHANGED <<items, tipBlockHeight, isConnected, connectionStatus,
                   wsConnection, maxHeight, fetchingParents, missingParents,
                   isEnabled, maxItemsToKeep, capturedWs, socks, timers, polls,
                   queue, now, calls, lastOp, nEvents, staleTimers, pureVars>>

\* a failure path that drops the Items left without their parent
FetchFail_dropsChildren(h, en) ==
    /\ out[<<h, en>>] > 0 /\ queue = <<>>
    /\ out' = [out EXCEPT ![<<h, en>>] = @ - 1]
    /\ fetchingParents' = fetchingParents \ {h}
    /\ items' = SelectSeq(items, LAMBDA x : x.fullParentHash # h)
    /\ UNCHANGED <<tipBlockHeight, isConnected, connectionStatus,
                   wsConnection, maxHeight, missingParents, isEnabled,
                   maxItemsToKeep, capturedWs, socks, timers, polls, queue,
                   now, calls, lastOp, nEvents, staleTimers, pureVars>>

\* the backfill call for h fails: network error, HTTP error status, JSON-RPC
\* error, null result or a result without woHeader
FetchFail(h, en) ==
    /\ out[<<h, en>>] > 0 /\ queue = <<>>
    /\ out' = [out EXCEPT ![<<h, en>>] = @ - 1]
    /\ fetchingParents' = fetchingParents \ {h}
    /\ UNCHANGED <<items, tipBlockHeight, isConnected, connectionStatus,
                   wsConnection, maxHeight, missingParents, isEnabled,
                   maxItemsToKeep, capturedWs, socks, timers, polls, queue,
                   now, calls, lastOp, nEvents, staleTimers,
                   pureVars>>

\* a cleanup interval whose callback closed over the cap of the first render
PeriodicCleanup_staleCap ==
    /\ queue = <<>>
    /\ items' = IF Len(items) <= MaxCap THEN items
                ELSE cleanupOldItems(items, MaxCap)
    /\ lastOp' = IF Len(items) <= MaxCap THEN lastOp
                  ELSE Op("cleanup", <<>>)
    /\ UNCHANGED <<tipBlockHeight, isConnected, connectionStatus, wsConnection,
                   maxHeight, fetchingParents, missingParents, isEnabled,
                   maxItemsToKeep, capturedWs, socks, timers, polls, out,
                   queue, now, calls, nEvents, staleTimers, pureVars>>

\* the 30000 ms cleanup interval fires
PeriodicCleanup ==
    /\ queue = <<>>
    /\ items' = IF Len(items) <= maxItemsToKeep THEN items
                ELSE cleanupOldItems(items, maxItemsToKeep)
    /\ lastOp' = IF Len(items) <= maxItemsToKeep THEN lastOp
                  ELSE Op("cleanup", <<>>)
    /\ UNCHANGED <<tipBlockHeight, isConnected, connectionStatus, wsConnection,
                   maxHeight, fetchingParents, missingParents, isEnabled,
                   maxItemsToKeep, capturedWs, socks, timers, polls, out,
                   queue, now, calls, nEvents, staleTimers,
                   pureVars>>

Next ==
    \/ \E ok \in BOOLEAN : Enable(ok)
    \/ Disable
    \/ \E c \in 1..MaxCap, ok \in BOOLEAN : SetMaxItems(c, ok)
    \/ \E s \in SockIds : WsOpen(s)
    \/ \E s \in SockIds : WsError(s)
    \/ \E s \in SockIds : WsClose(s)
    \/ \E ok \in BOOLEAN : TimerFire(ok)
    \/ PollStart
    \/ \E b \in Blocks : PollResponse(b)
    \/ PollFail
    \/ \E s \in SockIds, w \in Pushes : Push(s, w)
    \/ ApplyAddItem
    \/ \E h \in Fetchable, en \in BOOLEAN : FetchResponse(h, en)
    \/ \E h \in Fetchable, en \in BOOLEAN : FetchFail(h, en)
    \/ PeriodicCleanup

Spec == Init /\ [][Next]_vars

\* a queued state updater is taken off the queue: under Next this is an
\* ApplyAddItem step and nothing else, and it is possible exactly when
\* ApplyAddItem is
UpdaterStep == queue # <<>> /\ queue' = Tail(queue)

\* the hook with its own scheduling: React runs every queued updater, a
\* pending timeout fires, the cleanup interval keeps ticking; nothing is
\* assumed of the network, the node or the user
SpecLive ==
    /\ Init /\ [][Next]_vars
    /\ WF_queue(UpdaterStep)
    /\ WF_vars(\E ok \in BOOLEAN : TimerFire(ok))
    /\ WF_vars(PeriodicCleanup)

(***************************************************************************)
(* The 2x2 hook: the block branch of its addItem on its own, fed with the  *)
(* blocks each chain can report.                                           *)
(***************************************************************************)
\* DefaultMaxItems of App.js, the cap the 2x2 hook is created with
DefaultMaxItems == 500

IsRegion(chainName) == chainName \in {"Region-0", "Region-1"}

\* a || b for hashes
OrElse(a, b) == IF a # NoHash THEN a ELSE b

Item2x2(id, type, hash, parent, number, order, ts, chainName) ==
    [id |-> id, type |-> type, fullHash |-> hash, fullParentHash |-> parent,
     number |-> number, order |-> order, timestamp |-> ts,
     chainName |-> chainName]

\* the representations selected by the chain that reported the block
ChainRepresentations(chainName, parentHash, hp) ==
    IF chainName = "Prime"
    THEN << <<"primeBlock", OrElse(HeaderAt(hp, 0), parentHash)>>,
            <<"regionBlock", OrElse(HeaderAt(hp, 1), parentHash)>>,
            <<"block", parentHash>> >>
    ELSE IF IsRegion(chainName)
    THEN << <<"regionBlock", OrElse(HeaderAt(hp, 1),
                                    OrElse(HeaderAt(hp, 0), parentHash))>>,
            <<"block", parentHash>> >>
    ELSE << <<"block", parentHash>> >>

\* the representations selected by the block's order, tried when the pass
\* over the chain's representations has created none
OrderRepresentations(orderNum, parentHash, hp) ==
    IF orderNum = 0
    THEN << <<"primeBlock", OrElse(HeaderAt(hp, 0), parentHash)>>,
            <<"regionBlock", OrElse(HeaderAt(hp, 1), parentHash)>>,
            <<"block", parentHash>> >>
    ELSE IF orderNum = 1
    THEN << <<"regionBlock", OrElse(HeaderAt(hp, 1),
                                    OrElse(HeaderAt(hp, 0), parentHash))>>,
            <<"block", parentHash>> >>
    ELSE << <<"block", parentHash>> >>

RECURSIVE AddRepresentations2x2(_, _, _, _, _, _)
AddRepresentations2x2(reps, prevItems, call, chainName, ts, newItems) ==
    IF reps = <<>> THEN newItems
    ELSE LET blockType == Head(reps)[1]
             parent == Head(reps)[2]
             item == Item2x2(<<blockType, ShortHash(call.hash), ts,
                               Len(newItems)>>,
                             blockType, call.hash, parent,
                             ParseInt16(call.number), call.order, ts,
                             chainName)
         IN  AddRepresentations2x2(Tail(reps), prevItems, call, chainName, ts,
                 IF Exists(prevItems, call.hash, blockType) THEN newItems
                 ELSE Append(newItems, item))

\* addItem('block', ...) of the 2x2 hook
AddBlock2x2(call, chainName, prevItems, acc, maxH, cap, ts) ==
    LET decimalNumber == ParseInt16(call.number)
        orderNum == ParseInt16(call.order)
        byChain == AddRepresentations2x2(
                       ChainRepresentations(chainName, call.parentHash,
                                            call.headerParentHashes),
                       prevItems, call, chainName, ts, <<>>)
        newItems == IF byChain # <<>> THEN byChain
                    ELSE AddRepresentations2x2(
                             OrderRepresentations(orderNum, call.parentHash,
                                                  call.headerParentHashes),
                             prevItems, call, chainName, ts, <<>>)
    IN  IF newItems = <<>> THEN Result(prevItems, acc, maxH, "dup", <<>>)
        ELSE LET newMax == IF decimalNumber > maxH THEN decimalNumber ELSE maxH
                 updatedItems == SortByNumber(prevItems \o newItems)
                 acc2 == CheckParents(newItems, updatedItems, acc)
             IN  Result(cleanupOldItems(updatedItems, cap), acc2, newMax,
                        "append", newItems)

\* the chains polled in the store specification, one of each level
StoreChains == {"Prime", "Region-0", "Zone-0-0"}

\* the blocks a chain can report: a prime chain only blocks of order 0, a
\* region chain blocks of order 0 and 1, a zone chain blocks of every order
ChainBlocks(chainName) ==
    IF chainName = "Prime" THEN {B1}
    ELSE IF IsRegion(chainName) THEN {B1, B2}
    ELSE {B1, B2, B3}

\* a poll of one chain, or a backfill, hands a block to addItem
AddItem2x2(chainName, b) ==
    /\ pc = "2x2store"
    /\ hook2x2.nIngest < MaxIngest
    /\ \E ts \in hook2x2.now..MaxTime :
         \E r \in {AddBlock2x2(BlockCall("poll", TRUE, b), chainName,
                               hook2x2.items,
                               [missing |-> hook2x2.missingParents,
                                fetching |-> hook2x2.fetchingParents,
                                fetched |-> <<>>],
                               hook2x2.maxHeight, DefaultMaxItems, ts)} :
           hook2x2' = [hook2x2 EXCEPT
                          !.items = r.items,
                          !.maxHeight = r.maxHeight,
                          !.missingParents = r.missing,
                          !.fetchingParents = r.fetching,
                          !.now = ts,
                          !.nIngest = @ + 1,
                          !.lastCall = [chainName |-> chainName,
                                        hash |-> b.hash]]
    /\ UNCHANGED <<hookVars, pc, pIn, pCap, pOut>>

Init2x2Store ==
    /\ InitHook
    /\ pc = "2x2store" /\ pIn = <<>> /\ pCap = 0 /\ pOut = <<>>
    /\ hook2x2 = Init2x2

Next2x2Store == \E c \in StoreChains : \E b \in ChainBlocks(c) : AddItem2x2(c, b)

Spec2x2Store == Init2x2Store /\ [][Next2x2Store]_vars

(***************************************************************************)
(* The 2x2 hook: the sockets of its seven chains during one enabled        *)
(* period.  connectedCount is the counter local to the effect run.         *)
(***************************************************************************)
totalChains == Cardinality(Chains)

\* isEnabled becomes true: the effect calls connectWebSocket for every
\* chain; for the chains in failed new WebSocket(...) throws
Enable2x2(failed) ==
    /\ pc = "2x2conn"
    /\ ~hook2x2.isEnabled
    /\ hook2x2' = [hook2x2 EXCEPT
          !.isEnabled = TRUE,
          !.connectedCount = 0,
          !.sockets = [c \in Chains |->
                          IF c \in failed THEN "none" ELSE "connecting"],
          !.timers = [c \in Chains |-> IF c \in failed THEN 1 ELSE 0],
          !.connectionStatus = IF failed # {} THEN "Error" ELSE @]
    /\ UNCHANGED <<hookVars, pc, pIn, pCap, pOut>>

\* ws.onopen of one chain's socket
WsOpen2x2(c) ==
    /\ pc = "2x2conn"
    /\ hook2x2.sockets[c] = "connecting"
    /\ LET count == hook2x2.connectedCount + 1
       IN  hook2x2' = [hook2x2 EXCEPT
              !.sockets[c] = "open",
              !.connectedCount = count,
              !.isConnected = IF count >= totalChains THEN TRUE ELSE @,
              !.connectionStatus = IF count >= totalChains THEN "Connected"
                                   ELSE @]
    /\ UNCHANGED <<hookVars, pc, pIn, pCap, pOut>>

\* ws.onerror of one chain's socket
WsError2x2(c) ==
    /\ pc = "2x2conn"
    /\ hook2x2.sockets[c] \in {"connecting", "open"}
    /\ hook2x2.connectionStatus # "Error"
    /\ hook2x2' = [hook2x2 EXCEPT !.connectionStatus = "Error"]
    /\ UNCHANGED <<hookVars, pc, pIn, pCap, pOut>>

\* ws.onclose of one chain's socket, opened or not
WsClose2x2(c) ==
    /\ pc = "2x2conn"
    /\ hook2x2.sockets[c] \in {"connecting", "open"}
    /\ hook2x2.nCloses < MaxCloses
    /\ LET count == hook2x2.connectedCount - 1
       IN  hook2x2' = [hook2x2 EXCEPT
              !.sockets[c] = "none",
              !.connectedCount = count,
              !.isConnected = IF count = 0 THEN FALSE ELSE @,
              !.connectionStatus = IF count = 0 THEN "Disconnected" ELSE @,
              !.timers[c] = IF hook2x2.isEnabled THEN @ + 1 ELSE @,
              !.nCloses = @ + 1]
    /\ UNCHANGED <<hookVars, pc, pIn, pCap, pOut>>

\* the 5000 ms reconnect timeout of one chain fires
TimerFire2x2(c, ok) ==
    /\ pc = "2x2conn"
    /\ hook2x2.timers[c] > 0
    /\ ~ok => hook2x2.isEnabled
    /\ hook2x2' = [hook2x2 EXCEPT
          !.timers[c] = IF ok THEN @ - 1 ELSE @,
          !.sockets[c] = IF hook2x2.isEnabled /\ ok THEN "connecting" ELSE @,
          !.connectionStatus = IF ok THEN @ ELSE "Error"]
    /\ UNCHANGED <<hookVars, pc, pIn, pCap, pOut>>

Init2x2Conn ==
    /\ InitHook
    /\ pc = "2x2conn" /\ pIn = <<>> /\ pCap = 0 /\ pOut = <<>>
    /\ hook2x2 = Init2x2

Next2x2Conn ==
    \/ \E failed \in SUBSET Chains : Enable2x2(failed)
    \/ \E c \in Chains : WsOpen2x2(c)
    \/ \E c \in Chains : WsError2x2(c)
    \/ \E c \in Chains : WsClose2x2(c)
    \/ \E c \in Chains, ok \in BOOLEAN : TimerFire2x2(c, ok)

Spec2x2Conn == Init2x2Conn /\ [][Next2x2Conn]_vars

(***************************************************************************)
(* cleanupOldItems on its own: every list of up to MaxLen Items whose      *)
(* timestamps and numbers tie or differ in every way, under every cap.     *)
(***************************************************************************)
HashSeq == <<h1, h2, h3, h4, h5>>
Stamps == 1..MaxTime
Numbers == {NullNum, 1, 2}

SampleItem(i, k) ==
    Item(<<"block", ShortHash(HashSeq[i]), k[1], 0>>, "block", HashSeq[i],
         ZeroHash, k[2], <<2>>, k[1], NoHash)

SampleLists ==
    UNION {{[i \in 1..n |-> SampleItem(i, f[i])] :
                f \in [1..n -> Stamps \X Numbers]} : n \in 0..MaxLen}

InitCleanup ==
    /\ InitHook
    /\ pc = "call"
    /\ pIn \in SampleLists
    /\ pCap \in 0..MaxLen
    /\ pOut = <<>>
    /\ hook2x2 = Init2x2

ApplyCleanup ==
    /\ pc = "call"
    /\ pc' = "done"
    /\ pOut' = cleanupOldItems(pIn, pCap)
    /\ UNCHANGED <<items, tipBlockHeight, isConnected, connectionStatus,
                   wsConnection, maxHeight, fetchingParents, missingParents,
                   isEnabled, maxItemsToKeep, capturedWs, socks, timers, polls,
                   out, queue, now, calls, lastOp, nEvents, staleTimers, pIn,
                   pCap, hook2x2>>

NextCleanup == ApplyCleanup

SpecCleanup == InitCleanup /\ [][NextCleanup]_vars

(***************************************************************************)
(* Properties.                                                             *)
(***************************************************************************)

\* C1: at every moment no two Items of the store share both fullHash and type.
C1_UniqueHashType ==
    \A i \in 1..Len(items) : \A j \in 1..Len(items) :
        (items[i].fullHash = items[j].fullHash /\ items[i].type = items[j].type)
            => i = j

\* a duplicate insertion was just absorbed while the store holds two
\* representations of one hash
C1_Witness ==
    /\ lastOp.outcome \in {"dup", "update"}
    /\ \E i \in 1..Len(items) : \E j \in 1..Len(items) :
          i # j /\ items[i].fullHash = items[j].fullHash

\* C2: whenever no backfill fetch is outstanding, every Item whose
\* fullParentHash is not the all-zero sentinel has its parent in the store
\* under the same type or has its fullParentHash in the ledger.
C2_ParentOrLedger ==
    ((\A k \in OutKeys : out[k] = 0) /\ queue = <<>>)
        => \A i \in 1..Len(items) :
              items[i].fullParentHash # ZeroHash
                  => \/ Exists(items, items[i].fullParentHash, items[i].type)
                     \/ items[i].fullParentHash \in missingParents

\* C3 as stated: after every insertion step (append, update in place or
\* duplicate no-op) and after every periodic eviction pass the store holds at
\* most maxItems Items, for the cap in force at that time.
C3_BoundAfterEveryStep ==
    lastOp.outcome \in {"append", "update", "dup", "cleanup"}
        => Len(items) <= maxItemsToKeep

\* C3: after every insertion step that appends an Item and after every
\* periodic eviction pass the store holds at most maxItems Items, for the cap
\* in force at that time.
C3_BoundAfterAppend ==
    lastOp.outcome \in {"append", "cleanup"} => Len(items) <= maxItemsToKeep

\* an append of more Items than a cap lowered at runtime allows was cut to
\* that cap
C3_Witness ==
    /\ lastOp.outcome = "append"
    /\ maxItemsToKeep < MaxCap
    /\ Len(items) = maxItemsToKeep
    /\ Len(lastOp.emitted) > maxItemsToKeep

\* C4 as stated: while the source is enabled, an insertion that creates an
\* Item whose non-sentinel parent is absent from the store under the Item's
\* type leaves exactly one backfill network call issued for that parent hash
\* in the session.
C4_ExactlyOneCall ==
    [][(isEnabled /\ queue # <<>> /\ queue' = Tail(queue))
          => \A h \in Hashes :
                (\E i \in 1..Len(lastOp'.emitted) :
                    /\ lastOp'.emitted[i].fullParentHash = h
                    /\ h # ZeroHash
                    /\ ~Exists(items \o lastOp'.emitted, h, lastOp'.emitted[i].type))
                    => calls'[h] = 1]_vars

\* C4: such an insertion leaves at most one backfill network call issued for
\* the parent hash: exactly one when the hash was not in the ledger before
\* the insertion, and no new one when it was.
C4_AtMostOneCall ==
    [][(queue # <<>> /\ queue' = Tail(queue))
          => \A h \in Hashes :
                (\E i \in 1..Len(lastOp'.emitted) :
                    /\ lastOp'.emitted[i].fullParentHash = h
                    /\ h # ZeroHash
                    /\ ~Exists(items \o lastOp'.emitted, h, lastOp'.emitted[i].type))
                    => /\ calls'[h] <= 1
                       /\ h \notin missingParents => calls'[h] = 1
                       /\ h \in missingParents => calls'[h] = calls[h]]_vars

\* two Items reference the same absent parent and one call was issued for it
C4_Witness ==
    \E h \in Hashes :
        /\ calls[h] = 1
        /\ \E i \in 1..Len(items) : \E j \in 1..Len(items) :
              /\ i # j
              /\ items[i].fullParentHash = h /\ items[j].fullParentHash = h
              /\ ~Exists(items, h, items[i].type)
              /\ ~Exists(items, h, items[j].type)

\* C5: once an uncle or workshare Item has includedIn set to a hash, no later
\* addItem call for the same (fullHash, type) changes it.
C5_IncludedInKept ==
    [][(queue # <<>> /\ queue' = Tail(queue))
          => \A i \in 1..Len(items) :
                (items[i].type \in {"uncle", "workshare"}
                    /\ items[i].includedIn # NoHash)
                    => \A j \in 1..Len(items') :
                          (items'[j].fullHash = items[i].fullHash
                              /\ items'[j].type = items[i].type)
                              => items'[j].includedIn = items[i].includedIn]_vars

\* C6: for every raw block and every store content, inserting the block
\* twice yields the same Items, ids apart, as inserting it once.
C6_Idempotent ==
    \A b \in Blocks : \A t1 \in now..MaxTime : \A t2 \in t1..MaxTime :
        LET once == addItem(BlockCall("poll", isEnabled, b), items,
                            [missing |-> missingParents,
                             fetching |-> fetchingParents, fetched |-> <<>>],
                            maxHeight, maxItemsToKeep, t1)
            twice == addItem(BlockCall("poll", isEnabled, b), once.items,
                             [missing |-> once.missing,
                              fetching |-> once.fetching, fetched |-> <<>>],
                             once.maxHeight, maxItemsToKeep, t2)
            Contents(l) == [i \in 1..Len(l) |-> [l[i] EXCEPT !.id = <<>>]]
        IN  Contents(twice.items) = Contents(once.items)

\* C7: inserting a raw block none of whose representations is in the store
\* creates primeBlock, regionBlock and block Items for order 0, regionBlock
\* and block Items for order 1, and one block Item for order 2 or more, all
\* carrying the block's hash, and the store grows by them when the cap allows.
C7_Expansion ==
    [][(/\ queue # <<>> /\ queue' = Tail(queue)
        /\ Head(queue).type = "block"
        /\ \A i \in 1..Len(items) : items[i].fullHash # Head(queue).hash)
          => LET o == HexValue(Head(queue).order)
                 e == lastOp'.emitted
                 types == [i \in 1..Len(e) |-> e[i].type]
             IN  /\ \A i \in 1..Len(e) : e[i].fullHash = Head(queue).hash
                 /\ o = 0 => types = <<"primeBlock", "regionBlock", "block">>
                 /\ o = 1 => types = <<"regionBlock", "block">>
                 /\ o >= 2 => types = <<"block">>
                 /\ Len(items) + Len(e) <= maxItemsToKeep
                      => /\ Len(items') = Len(items) + Len(e)
                         /\ \A i \in 1..Len(e) :
                               \E j \in 1..Len(items') : items'[j] = e[i]]_vars

\* an order-0 block was just expanded into its three representations
C7_Witness ==
    /\ lastOp.outcome = "append"
    /\ Len(lastOp.emitted) = 3
    /\ lastOp.emitted[1].order = <<0>>

\* C8: on the transition from enabled to disabled the store, the ledger and
\* the in-flight set are empty, the maximum height and the tip height are 0,
\* isConnected is false and the status is 'Disconnected'.
C8_DisableResets ==
    [][(isEnabled /\ ~isEnabled')
          => /\ items' = <<>>
             /\ missingParents' = {}
             /\ fetchingParents' = {}
             /\ maxHeight' = 0
             /\ tipBlockHeight' = 0
             /\ ~isConnected'
             /\ connectionStatus' = "Disconnected"]_vars

\* the source was disabled while a backfill call of the session that just
\* ended was still outstanding
C8_Witness ==
    /\ ~isEnabled
    /\ nEvents < MaxEvents
    /\ lastOp.outcome = "none"
    /\ items = <<>> /\ fetchingParents = {}
    /\ \E h \in Hashes : out[<<h, TRUE>>] > 0

\* C9: a backfill fetch started while the source was enabled whose response
\* arrives after the source was disabled changes neither the ledger nor the
\* store.
C9_LateBackfillDiscarded ==
    [][/\ (~isEnabled /\ \E h \in Hashes : out'[<<h, TRUE>>] < out[<<h, TRUE>>])
            => (missingParents' = missingParents /\ queue' = queue)
       /\ (/\ ~isEnabled /\ queue # <<>> /\ queue' = Tail(queue)
           /\ Head(queue).src = "backfill" /\ Head(queue).en)
            => items' = items]_vars

\* C10: cleanupOldItems returns its input unchanged when the input is not
\* longer than the cap; otherwise it returns exactly cap Items of the input,
\* each of them newer than every dropped Item, or as new with a number at
\* least as great.
C10_Cleanup ==
    pc = "done"
        => /\ Len(pIn) <= pCap => pOut = pIn
           /\ Len(pIn) > pCap
                => /\ Len(pOut) = pCap
                   /\ \E kept \in SUBSET (1..Len(pIn)) :
                         /\ Cardinality(kept) = pCap
                         /\ \A i \in kept : \E j \in 1..Len(pOut) : pOut[j] = pIn[i]
                         /\ \A j \in 1..Len(pOut) : \E i \in kept : pIn[i] = pOut[j]
                         /\ \A i \in kept : \A d \in (1..Len(pIn)) \ kept :
                               \/ pIn[i].timestamp > pIn[d].timestamp
                               \/ /\ pIn[i].timestamp = pIn[d].timestamp
                                  /\ Num0(pIn[i].number) >= Num0(pIn[d].number)

\* an over-long list was cut, keeping a newer Item of lower number and
\* dropping an older Item of higher number
C10_Witness ==
    /\ pc = "done"
    /\ Len(pIn) > pCap
    /\ \E j \in 1..Len(pOut) : \E d \in 1..Len(pIn) :
          /\ \A k \in 1..Len(pOut) : pOut[k] # pIn[d]
          /\ pOut[j].timestamp > pIn[d].timestamp
          /\ Num0(pOut[j].number) < Num0(pIn[d].number)

\* C11: after every mutation of the store (insertion, update in place,
\* insertion-time eviction, periodic eviction) the Items are in ascending
\* order of number, null counting as 0.
C11_SortedByNumber ==
    \A i \in 1..Len(items) : \A j \in 1..Len(items) :
        i < j => Num0(items[i].number) <= Num0(items[j].number)

\* C12: no backfill call is ever issued for the all-zero sentinel hash and
\* the sentinel never enters the ledger; an insertion all of whose new Items
\* have the sentinel as parent issues no call and leaves the ledger as it
\* was, and an insertion issues no call for a hash when every new Item with
\* that parent finds its same-type parent in the store.
C12_NoSentinelFetch ==
    [][/\ calls'[ZeroHash] = 0
       /\ ZeroHash \notin missingParents'
       /\ \A k \in OutKeys : k[1] = ZeroHash => out'[k] = 0
       /\ (queue # <<>> /\ queue' = Tail(queue))
            => LET e == lastOp'.emitted
               IN  /\ (\A i \in 1..Len(e) : e[i].fullParentHash = ZeroHash)
                        => (calls' = calls /\ missingParents' = missingParents)
                   /\ \A h \in Fetchable :
                         (\A i \in 1..Len(e) :
                             e[i].fullParentHash = h
                                 => Exists(items \o e, h, e[i].type))
                             => calls'[h] = calls[h]]_vars

\* a block whose parents are all the sentinel was just inserted, and no call
\* and no ledger entry came of it
C12_Witness ==
    /\ lastOp.outcome = "append"
    /\ Len(lastOp.emitted) = 3
    /\ \A i \in 1..Len(lastOp.emitted) :
          lastOp.emitted[i].fullParentHash = ZeroHash
    /\ missingParents = {}
    /\ \A k \in OutKeys : out[k] = 0

\* C13: when an insertion appends an Item whose non-sentinel parent hash has
\* no same-type Item in the collection with the new Items added and is in
\* neither the ledger nor the in-flight set, that same step puts the hash in
\* the ledger before the call is sent, sends exactly one call for it, and
\* ends with the new collection in place while the call is still outstanding.
C13_FetchInSameStep ==
    [][(queue # <<>> /\ queue' = Tail(queue))
          => LET e == lastOp'.emitted
                 f == addItem(Head(queue), items,
                              [missing |-> missingParents,
                               fetching |-> fetchingParents, fetched |-> <<>>],
                              maxHeight, maxItemsToKeep, now').fetched
             IN  /\ \A k \in 1..Len(f) : f[k][2]
                 /\ \A h \in Hashes :
                       (/\ h \notin missingParents
                        /\ h \notin fetchingParents
                        /\ \E i \in 1..Len(e) :
                              /\ e[i].fullParentHash = h
                              /\ ~Exists(items \o e, h, e[i].type))
                           => /\ h \in missingParents'
                              /\ h \in fetchingParents'
                              /\ Cardinality({k \in 1..Len(f) : f[k][1] = h}) = 1
                              /\ calls'[h] = calls[h] + 1
                              /\ out'[<<h, isEnabled>>] = out[<<h, isEnabled>>] + 1
                              /\ lastOp'.outcome = "append"
                              /\ items' = cleanupOldItems(SortByNumber(items \o e),
                                                          maxItemsToKeep)]_vars

\* a block with two representations of the same absent parent was just
\* inserted: the parent is ledgered and in flight, one call for it is
\* outstanding and the new Items are in the store
C13_Witness ==
    /\ lastOp.outcome = "append"
    /\ Len(lastOp.emitted) = 2
    /\ \E h \in Hashes :
          /\ \A i \in 1..2 : lastOp.emitted[i].fullParentHash = h
          /\ h \in missingParents /\ h \in fetchingParents
          /\ calls[h] = 1
          /\ out[<<h, TRUE>>] = 1
    /\ \A i \in 1..2 : \E j \in 1..Len(items) : items[j] = lastOp.emitted[i]

\* C14: when a backfill call succeeds, the zone parent and the header prime
\* and region parents of the fetched block, the sentinel apart, are in the
\* ledger before the block is inserted, and the insertion of the fetched
\* block sends no backfill call.
C14_OneHop ==
    [][/\ (\E k \in OutKeys : out'[k] < out[k]) /\ queue' # <<>>
            => LET c == Head(queue')
               IN  /\ c.src = "backfill"
                   /\ \A x \in {c.parentHash, HeaderAt(c.headerParentHashes, 0),
                                HeaderAt(c.headerParentHashes, 1)} :
                         (x # NoHash /\ x # ZeroHash) => x \in missingParents'
       /\ (queue # <<>> /\ queue' = Tail(queue) /\ Head(queue).src = "backfill")
            => /\ calls' = calls
               /\ out' = out
               /\ fetchingParents' = fetchingParents]_vars

\* a fetched block was just inserted; its parent is not in the store under
\* the type of any of the new Items, is in the ledger, and was never fetched
C14_Witness ==
    /\ lastOp.outcome = "append"
    /\ \E h \in Hashes :
          /\ calls[lastOp.emitted[1].fullHash] = 1
          /\ \A k \in OutKeys : out[k] = 0
          /\ \A i \in 1..Len(lastOp.emitted) :
                /\ lastOp.emitted[i].fullParentHash = h
                /\ ~Exists(items, h, lastOp.emitted[i].type)
          /\ h \in missingParents
          /\ calls[h] = 0

\* C15: between two full resets at most one backfill network call is issued
\* for any hash, whatever became of the first call; a failed backfill is not
\* retried.
C15_AtMostOneCallPerHash ==
    \A h \in Fetchable : calls[h] <= 1

\* the one call for a hash came back without a block (the marks a fetched
\* block leaves are absent), and the block of a poll answered after the call
\* returned, whose workshare is still queued, was just inserted and names
\* that hash as its absent parent: still one call
C15_Witness ==
    /\ lastOp.outcome = "append"
    /\ queue # <<>> /\ Head(queue).src = "poll"
    /\ Head(queue).includingHash = lastOp.emitted[1].fullHash
    /\ \E h \in Hashes :
          /\ calls[h] = 1
          /\ out[<<h, TRUE>>] = 0 /\ out[<<h, FALSE>>] = 0
          /\ h \notin fetchingParents
          /\ h \in missingParents
          /\ \A b \in Blocks :
                b.hash = h => ~(AncestorMarks(b) \subseteq missingParents)
          /\ \A j \in 1..Len(items) : items[j].fullHash # h
          /\ \E i \in 1..Len(lastOp.emitted) :
                lastOp.emitted[i].fullParentHash = h

\* C16: between full resets the max-height-seen counter never decreases: no
\* insertion, duplicate, update in place, insertion-time eviction or
\* periodic eviction lowers it.
C16_MaxHeightMonotone ==
    [][~(isEnabled /\ ~isEnabled') => maxHeight' >= maxHeight]_vars

\* a block lower than the counter was just inserted and the counter stands
C16_Witness ==
    /\ lastOp.outcome = "append"
    /\ maxHeight > 0
    /\ \E i \in 1..Len(lastOp.emitted) :
          /\ lastOp.emitted[i].number >= 0
          /\ lastOp.emitted[i].number < maxHeight

\* C17: a reconnect is scheduled on a close only while the source is
\* enabled, and a scheduled reconnect that was pending when the source was
\* disabled opens no connection when its timer fires.
C17_DisableSuppressesRetry ==
    [][/\ timers' > timers => isEnabled
       /\ (timers' < timers /\ staleTimers > 0) => socks' = socks]_vars

\* C18: no two Items of the store have the same id, even when they are
\* created at the same clock value or their hashes share the first 8
\* characters.
C18_UniqueIds ==
    \A i \in 1..Len(items) : \A j \in 1..Len(items) :
        items[i].id = items[j].id => i = j

\* C19: in every reachable state, disable/re-enable cycles with a call
\* pending included, at most one backfill call is outstanding for any hash,
\* and a hash is in the in-flight set exactly when a call for it is
\* outstanding.
C19_InFlightExact ==
    \A h \in Fetchable :
        /\ out[<<h, TRUE>>] + out[<<h, FALSE>>] <= 1
        /\ h \in fetchingParents <=> out[<<h, TRUE>>] + out[<<h, FALSE>>] > 0

\* C20: whenever a backfill call returns, with a block or with any kind of
\* failure, its hash is not in the in-flight set afterwards, and the
\* in-flight set is empty whenever no backfill call is outstanding.
C20_ReturnClearsInFlight ==
    [][/\ \A k \in OutKeys : out'[k] < out[k] => k[1] \notin fetchingParents'
       /\ (\A k \in OutKeys : out'[k] = 0) => fetchingParents' = {}]_vars

\* the call sent by the last insertion came back without a block: nothing
\* was inserted since, the hash stays in the ledger and the in-flight set is
\* empty
C20_Witness ==
    /\ queue = <<>>
    /\ \A k \in OutKeys : out[k] = 0
    /\ fetchingParents = {}
    /\ lastOp.outcome = "append"
    /\ \E h \in Hashes :
          /\ lastOp.emitted[1].fullParentHash = h
          /\ calls[h] = 1
          /\ h \in missingParents
          /\ \A j \in 1..Len(items) : items[j].fullHash # h

\* C21: every hash added to the in-flight set is eventually removed from it,
\* even if the network never answers the backfill request.
C21_InFlightEventuallyCleared ==
    \A h \in Hashes : (h \in fetchingParents) ~> (h \notin fetchingParents)

\* C22: a backfill call that fails (network error, HTTP error, RPC error or
\* a response without woHeader) leaves the Items and the max-height counter
\* as they were, leaves the ledger as it was, so the requested hash stays in
\* it, and inserts nothing; nothing but the call itself and its in-flight
\* entry changes.
C22_FailureChangesNothing ==
    [][((\E k \in OutKeys : out'[k] < out[k]) /\ queue' = <<>>)
          => /\ items' = items
             /\ maxHeight' = maxHeight
             /\ missingParents' = missingParents
             /\ tipBlockHeight' = tipBlockHeight
             /\ isConnected' = isConnected
             /\ connectionStatus' = connectionStatus
             /\ calls' = calls
             /\ lastOp' = lastOp]_vars

\* the call for the parent of an Item in the store failed: the Item, the
\* counter it raised and the ledger entry are all still there
C22_Witness ==
    /\ queue = <<>>
    /\ \A k \in OutKeys : out[k] = 0
    /\ lastOp.outcome = "append"
    /\ maxHeight > 0
    /\ \E i \in 1..Len(items) :
          /\ items[i] = lastOp.emitted[1]
          /\ items[i].number = maxHeight
          /\ items[i].fullParentHash \in missingParents
          /\ calls[items[i].fullParentHash] = 1
          /\ ~Exists(items, items[i].fullParentHash, items[i].type)

\* C23: a poll response lacking result, hash or woHeader changes nothing in
\* the store, the ledger or the height counters; a well-formed one queues,
\* after its block, one insertion for every uncle and workshare entry that
\* has both hash and parentHash and none for the others, whatever the other
\* entries look like, and each of these insertions appends the Item or
\* updates the existing one with the block's hash.
C23_PollEntriesIndependent ==
    [][/\ (polls' < polls /\ queue' = <<>>)
            => /\ items' = items
               /\ missingParents' = missingParents
               /\ fetchingParents' = fetchingParents
               /\ maxHeight' = maxHeight
               /\ tipBlockHeight' = tipBlockHeight
       /\ (polls' < polls /\ queue' # <<>>)
            => LET b == BlockByHash(Head(queue').hash)
                   Good(l) == {i \in 1..Len(l) :
                                  l[i].hash # NoHash /\ l[i].parentHash # NoHash}
                   Queued(e, type) ==
                       \E j \in 2..Len(queue') :
                           /\ queue'[j].type = type
                           /\ queue'[j].hash = e.hash
                           /\ queue'[j].parentHash = e.parentHash
                           /\ queue'[j].includingHash = b.hash
               IN  /\ Head(queue').type = "block"
                   /\ Len(queue') = 1 + Cardinality(Good(b.uncles))
                                      + Cardinality(Good(b.workshares))
                   /\ \A i \in Good(b.uncles) : Queued(b.uncles[i], "uncle")
                   /\ \A i \in Good(b.workshares) :
                         Queued(b.workshares[i], "workshare")
       /\ (/\ queue # <<>> /\ queue' = Tail(queue)
           /\ Head(queue).src = "poll" /\ Head(queue).type # "block")
            => \/ /\ lastOp'.outcome = "append"
                  /\ lastOp'.emitted[1].fullHash = Head(queue).hash
                  /\ lastOp'.emitted[1].includedIn = Head(queue).includingHash
               \/ /\ lastOp'.outcome = "update"
                  /\ \E i \in 1..Len(items') :
                        /\ items'[i].fullHash = Head(queue).hash
                        /\ items'[i].type = Head(queue).type
                        /\ items'[i].includedIn = Head(queue).includingHash]_vars

\* the workshare that follows a malformed entry in B3's list was just
\* inserted or updated with B3's hash
C23_Witness ==
    /\ lastOp.outcome \in {"append", "update"}
    /\ queue = <<>>
    /\ \E i \in 1..Len(items) :
          /\ items[i].type = "workshare"
          /\ items[i].fullHash = W1.hash
          /\ items[i].includedIn = B3.hash
          /\ lastOp.outcome = "append" => lastOp.emitted[1] = items[i]

\* C24: an update in place (addItem for an uncle or workshare that is in the
\* store, with a non-null includingHash) changes only the includedIn field
\* of the one matched Item: its other fields, the other Items, the length
\* and order of the collection, the ledger, the in-flight set and the
\* max-height counter stay as they were, and no call is sent.
C24_UpdateFrame ==
    [][(/\ queue # <<>> /\ queue' = Tail(queue)
        /\ Head(queue).type # "block"
        /\ Head(queue).includingHash # NoHash
        /\ Exists(items, Head(queue).hash, Head(queue).type))
          => /\ \E i \in 1..Len(items) :
                   /\ items[i].fullHash = Head(queue).hash
                   /\ items[i].type = Head(queue).type
                   /\ items' = [items EXCEPT
                                   ![i].includedIn = Head(queue).includingHash]
             /\ missingParents' = missingParents
             /\ fetchingParents' = fetchingParents
             /\ maxHeight' = maxHeight
             /\ calls' = calls
             /\ out' = out]_vars

\* a workshare inserted at an earlier clock value, listed among other Items,
\* just had its inclusion link attached
C24_Witness ==
    /\ lastOp.outcome = "update"
    /\ Len(items) > 1
    /\ \E i \in 1..Len(items) :
          /\ items[i].type = "workshare"
          /\ items[i].includedIn # NoHash
          /\ items[i].timestamp < now

\* C25: a fully duplicate notification (a block all of whose representations
\* are in the store, or an uncle or workshare that is in the store and
\* arrives with a null includingHash) leaves the Items, the ledger, the
\* in-flight set and the max-height counter as they were and sends no call,
\* even when the duplicate's parent is absent from the store.
C25_DuplicateFrame ==
    [][(/\ queue # <<>> /\ queue' = Tail(queue)
        /\ LET c == Head(queue)
               reps == Representations(ParseInt16(c.order), c.parentHash,
                                       c.headerParentHashes)
           IN  \/ /\ c.type = "block"
                  /\ \A k \in 1..Len(reps) : Exists(items, c.hash, reps[k][1])
               \/ /\ c.type # "block"
                  /\ c.includingHash = NoHash
                  /\ Exists(items, c.hash, c.type))
          => /\ items' = items
             /\ missingParents' = missingParents
             /\ fetchingParents' = fetchingParents
             /\ maxHeight' = maxHeight
             /\ calls' = calls
             /\ out' = out]_vars

\* the one workshare of the store was just notified again; its parent is
\* neither in the store nor being fetched, and the single call made for it
\* has returned
C25_Witness ==
    /\ lastOp.outcome = "dup"
    /\ queue = <<>>
    /\ Len(items) = 1
    /\ items[1].type = "workshare"
    /\ fetchingParents = {}
    /\ \A k \in OutKeys : out[k] = 0
    /\ calls[items[1].fullParentHash] = 1

\* C26: for every notification type (block, uncle, workshare) a missing or
\* null height field gives an Item with number null and leaves the
\* max-height counter as it was, and the height 0x0 gives number 0.
C26_NullHeight ==
    isConnected
        => \A type \in {"block", "uncle", "workshare"} : \A h \in Hashes :
           \A n \in {Missing, <<0>>} :
              LET r == addItem(Call("poll", isEnabled, type, h, ZeroHash, n,
                                    <<2>>, <<>>, NoHash),
                               items,
                               [missing |-> missingParents,
                                fetching |-> fetchingParents, fetched |-> <<>>],
                               maxHeight, maxItemsToKeep, now)
              IN  \A i \in 1..Len(r.emitted) :
                     /\ n = Missing => /\ r.emitted[i].number = NullNum
                                       /\ r.maxHeight = maxHeight
                     /\ n = <<0>> => r.emitted[i].number = 0

\* C27: a change of maxItems removes no Item by itself; the periodic eviction
\* tick that finds the store over the cap in force cuts it to that cap, and
\* since the tick keeps firing whether or not anything is inserted, a store
\* that holds more Items than the cap is eventually within the cap.
C27_CapAtNextTick ==
    /\ [][/\ maxItemsToKeep' # maxItemsToKeep => items' = items
          /\ (lastOp.outcome # "cleanup" /\ lastOp'.outcome = "cleanup")
               => /\ maxItemsToKeep' = maxItemsToKeep
                  /\ Len(items') <= maxItemsToKeep]_vars
    /\ (Len(items) > maxItemsToKeep) ~> (Len(items) <= maxItemsToKeep)

\* the cap was lowered below the size of the store and a periodic tick has
\* cut the store to the new cap
C27_Witness ==
    /\ lastOp.outcome = "cleanup"
    /\ maxItemsToKeep < MaxCap
    /\ Len(items) = maxItemsToKeep

\* the store after the block of a just-answered poll and then its first
\* uncle or workshare entry have been inserted at clock values t1 and t2
AfterBlock(t1) ==
    addItem(Head(queue), items,
            [missing |-> missingParents, fetching |-> fetchingParents,
             fetched |-> <<>>],
            maxHeight, maxItemsToKeep, t1)

AfterEntry(t1, t2) ==
    LET r1 == AfterBlock(t1)
    IN  addItem(queue[2], r1.items,
                [missing |-> r1.missing, fetching |-> r1.fetching,
                 fetched |-> <<>>],
                r1.maxHeight, maxItemsToKeep, t2)

\* a poll was just answered, its block X is to be inserted first, and its
\* first entry is a workshare that a push put in the store without a link
PushedThenListed ==
    /\ Len(queue) >= 2
    /\ Head(queue).src = "poll" /\ Head(queue).type = "block"
    /\ queue[2].type = "workshare"
    /\ \E i \in 1..Len(items) :
          /\ items[i].type = "workshare"
          /\ items[i].fullHash = queue[2].hash
          /\ items[i].includedIn = NoHash

LinkedCopies(list) ==
    {i \in 1..Len(list) : /\ list[i].type = "workshare"
                          /\ list[i].fullHash = queue[2].hash}

HeaderSamples == {<<h1, h2>>, <<h1>>, <<>>}

\* C29: every representation created for a block carries the parent of its
\* own level: the primeBlock Item the header prime parent, the regionBlock
\* Item the header region parent (for order 1 the prime parent when the
\* region parent is absent), and the 'block' Item the zone parent.
C29_ParentPerLevel ==
    (polls > 0 /\ queue = <<>>)
        => \A h \in {h2, h5} : \A o \in 0..2 : \A hp \in HeaderSamples :
              LET r == addItem(Call("poll", isEnabled, "block", h, h3, <<2>>,
                                    <<o>>, hp, NoHash),
                               items,
                               [missing |-> missingParents,
                                fetching |-> fetchingParents, fetched |-> <<>>],
                               maxHeight, maxItemsToKeep, now)
              IN  \A i \in 1..Len(r.emitted) :
                     LET e == r.emitted[i]
                     IN  /\ e.fullHash = h
                         /\ e.type = "primeBlock"
                              => e.fullParentHash = HeaderAt(hp, 0)
                         /\ e.type = "regionBlock"
                              => e.fullParentHash =
                                    IF o = 1 /\ HeaderAt(hp, 1) = NoHash
                                    THEN HeaderAt(hp, 0) ELSE HeaderAt(hp, 1)
                         /\ e.type = "block" => e.fullParentHash = h3

\* the region block B2, whose header names only a prime parent, was just
\* inserted: its regionBlock Item carries that prime parent and its 'block'
\* Item the zone parent
C29_Witness ==
    /\ lastOp.outcome = "append"
    /\ Len(lastOp.emitted) = 2
    /\ lastOp.emitted[1].fullHash = B2.hash
    /\ lastOp.emitted[1].type = "regionBlock"
    /\ lastOp.emitted[1].fullParentHash = HeaderAt(B2.headerParentHashes, 0)
    /\ lastOp.emitted[2].type = "block"
    /\ lastOp.emitted[2].fullParentHash = B2.parentHash

\* C30: an insertion step issues a backfill call for a hash only when the
\* store it was applied to holds no Item of any type with that fullHash; in
\* particular an uncle or workshare whose parent is in the store as a zone
\* 'block' Item triggers no call.
C30_FetchOnlyIfAbsent ==
    [][\A h \in Fetchable :
          calls'[h] > calls[h]
              => \A i \in 1..Len(items) : items[i].fullHash # h]_vars

\* C31: a socket that closes while the source is enabled arms the reconnect
\* timeout and creates no socket by itself, and whenever the source is
\* enabled with no live socket (after a close or after a failed creation) it
\* is eventually disabled or a new socket is being connected.
C31_ReconnectAfterClose ==
    /\ [][\A s \in SockIds :
             (Live(s) /\ socks'[s] = "free" /\ isEnabled)
                 => /\ timers' = timers + 1
                    /\ \A r \in SockIds :
                          socks'[r] = "connecting" => socks[r] = "connecting"]_vars
    /\ (isEnabled /\ \A s \in SockIds : ~Live(s))
          ~> (~isEnabled \/ \E s \in SockIds : socks[s] = "connecting")

\* the socket that delivered a push has closed and, with no disable or cap
\* change since, the timeout has fired and a new socket is connecting
C31_Witness ==
    /\ isEnabled /\ ~isConnected
    /\ nEvents = MaxEvents - 1
    /\ items # <<>>
    /\ timers = 0
    /\ \E s \in SockIds : socks[s] = "connecting"

\* C32: a poll that fails changes neither the store, the ledger, the
\* in-flight set, the max height nor the tip height, queues no insertion,
\* and leaves the polling loop running: while the hook is connected the
\* next poll can be sent.
C32_PollFailureHarmless ==
    [][(polls' < polls /\ queue' = <<>>)
          => /\ items' = items
             /\ missingParents' = missingParents
             /\ fetchingParents' = fetchingParents
             /\ maxHeight' = maxHeight
             /\ tipBlockHeight' = tipBlockHeight
             /\ calls' = calls
             /\ isConnected' = isConnected
             /\ isConnected' => polls' < MaxPolls]_vars

\* a poll has just failed in a connected hook that holds Items, a ledger
\* entry and a tip height
C32_Witness ==
    /\ lastOp.outcome = "pollFail"
    /\ isConnected
    /\ items # <<>>
    /\ missingParents # {}
    /\ tipBlockHeight > 0
    /\ polls = 0

\* C33: in every reachable state every hash of the in-flight set is in the
\* Missing-Parent Ledger.
C33_InFlightWithinLedger ==
    fetchingParents \subseteq missingParents

\* one backfill call is in flight while the ledger also holds a hash whose
\* call has already returned
C33_Witness ==
    /\ fetchingParents # {}
    /\ \E h \in missingParents :
          /\ h \notin fetchingParents
          /\ calls[h] > 0
          /\ \A k \in OutKeys : k[1] = h => out[k] = 0

\* C34: in every reachable state the max-height counter is at least the
\* number of every Item of the store, a null number counting as 0, also
\* when Items were inserted by late responses after a disable reset.
C34_MaxHeightCoversStore ==
    \A i \in 1..Len(items) : Num0(items[i].number) <= maxHeight

\* the source is disabled, the reset has emptied the store and zeroed the
\* counter, and a late insertion has put an Item of positive height back
C34_Witness ==
    /\ ~isEnabled
    /\ items # <<>>
    /\ \E i \in 1..Len(items) :
          items[i].number > 0 /\ items[i].number = maxHeight

\* C35: while the source is disabled isConnected is false and the connection
\* status is not 'Connected', and no poll request is started, whatever a
\* socket created before the disable does.
C35_DisabledStaysDisconnected ==
    /\ [](~isEnabled => (~isConnected /\ connectionStatus # "Connected"))
    /\ [][polls' > polls => isEnabled]_vars

\* C36: while the source is disabled no addItem call made for a pushed
\* subscription message or for a poll response changes the Item store.
C36_NoTrafficWhileDisabled ==
    [][(/\ queue # <<>> /\ queue' = Tail(queue)
        /\ Head(queue).src \in {"push", "poll"}
        /\ ~isEnabled)
          => items' = items]_vars

\* C37: in the 2x2 hook, handing addItem a block whose representations
\* selected by its chain name (Prime: primeBlock, regionBlock and block;
\* Region-*: regionBlock and block; Zone-*: block) are all in the store
\* leaves the store as it was, whatever the order of the block.
C37_ReingestUnchanged ==
    [][hook2x2'.nIngest > hook2x2.nIngest
          => LET c == hook2x2'.lastCall.chainName
                 h == hook2x2'.lastCall.hash
                 types == IF c = "Prime"
                          THEN {"primeBlock", "regionBlock", "block"}
                          ELSE IF c \in {"Region-0", "Region-1"}
                          THEN {"regionBlock", "block"}
                          ELSE {"block"}
             IN  (\A t \in types : Exists(hook2x2.items, h, t))
                     => hook2x2'.items = hook2x2.items]_vars

\* C38: in the 2x2 hook connectedCount equals the number of chain sockets
\* that are open, it is never negative, and whenever all seven chain
\* sockets are open isConnected is true and the status is 'Connected'.
C38_CountMatchesOpenSockets ==
    LET open == {c \in Chains : hook2x2.sockets[c] = "open"}
    IN  /\ hook2x2.connectedCount = Cardinality(open)
        /\ hook2x2.connectedCount >= 0
        /\ open = Chains
              => /\ hook2x2.isConnected
                 /\ hook2x2.connectionStatus = "Connected"

=============================================================================
